---- MODULE Spec2Model ----
(***************************************************************************)
(* Model of torchbenchmark/operators/int4_gemm/kernel.py: the Triton       *)
(* kernel matmul_kernel, its host driver matmul and the weight packer      *)
(* pack_2xint4.                                                            *)
(*                                                                         *)
(* Tensors are flat memories (functions from an element address to a       *)
(* value) read and written through strides, as the kernel does.  All       *)
(* values are integers: the inputs are small integers, which bfloat16 and  *)
(* the float32 accumulator hold exactly; to_bfloat16 rounds what does not  *)
(* fit.                                                                    *)
(*                                                                         *)
(* matmul with use_int16 set loads a precompiled kernel from a file that   *)
(* is not part of the source; the model covers the dispatch of             *)
(* matmul_kernel, with its mode flag USE_INT8_WEIGHT either way, and       *)
(* leaves out the dump of the compiled artifacts after the dispatch.  The  *)
(* autotuner's choice of a configuration is a choice of the block sizes    *)
(* in Init.                                                                *)
(*                                                                         *)
(* Three specifications share the variables:                               *)
(*   Spec       one call of matmul: the launch, the program instances of   *)
(*              matmul_kernel interleaved step by step, the return;        *)
(*   SpecSched  the grouped pid -> (pid_m, pid_n) mapping applied to every *)
(*              pid of a grid, on grids larger than Spec can interleave;   *)
(*   SpecPack   pack_2xint4 followed by the kernel's (disabled) unpacking. *)
(***************************************************************************)
EXTENDS Integers, Sequences, FiniteSets

VARIABLES
    M, N, K,                \* a.shape = (M, K); N = b.shape[1]
    Kb,                     \* row count of the logical weight matrix w
    BLOCK_SIZE_M, BLOCK_SIZE_N, BLOCK_SIZE_K, GROUP_SIZE_M,
    USE_INT8_WEIGHT,        \* kernel mode flag; b is packed iff it is set
    TRITON_DEBUG,           \* whether the build keeps tl.device_assert
    a, w, b, c,             \* memories: activations, logical weights,
                            \* physical weights, output (store history)
    host,                   \* position of the caller of matmul
    pc, k_it, a_ptrs, b_ptrs, accumulator,   \* per program instance
    bad_load_a, bad_load_b, bad_store,       \* access log of the kernel
    scan_pid, tile_log,     \* SpecSched: next pid, pids seen per tile
    unpacked, pack_pc       \* SpecPack: unpacked matrix, position

vars == <<M, N, K, Kb, BLOCK_SIZE_M, BLOCK_SIZE_N, BLOCK_SIZE_K,
          GROUP_SIZE_M, USE_INT8_WEIGHT, TRITON_DEBUG, a, w, b, c, host,
          pc, k_it, a_ptrs, b_ptrs, accumulator, bad_load_a, bad_load_b,
          bad_store, scan_pid, tile_log, unpacked, pack_pc>>

config_vars == <<M, N, K, Kb, BLOCK_SIZE_M, BLOCK_SIZE_N, BLOCK_SIZE_K,
                 GROUP_SIZE_M, USE_INT8_WEIGHT, TRITON_DEBUG, a, w, b>>

sched_vars == <<scan_pid, tile_log>>

pack_vars == <<unpacked, pack_pc>>

kernel_vars == <<c, host, pc, k_it, a_ptrs, b_ptrs, accumulator,
                 bad_load_a, bad_load_b, bad_store>>

(***************************************************************************)
(* Bounds of the model.                                                    *)
(***************************************************************************)
MaxM == 3
MaxN == 2
MaxK == 2
MaxBlock == 2
MaxGroup == 2
MaxGrid == 4
MaxSeed == 1
MaxSchedM == 10
MaxSchedN == 4
MaxSchedGroup == 4
MaxPackHalfK == 2
MaxPackN == 2

(***************************************************************************)
(* Integer helpers.                                                        *)
(***************************************************************************)
Min(x, y) == IF x <= y THEN x ELSE y

Abs(x) == IF x < 0 THEN -x ELSE x

RECURSIVE Pow2(_)
Pow2(e) == IF e = 0 THEN 1 ELSE 2 * Pow2(e - 1)

RECURSIVE SumOver(_, _)
SumOver(S, f) ==
    IF S = {} THEN 0
    ELSE LET x == CHOOSE y \in S : TRUE IN f[x] + SumOver(S \ {x}, f)

RECURSIVE SetToSeq(_)
SetToSeq(S) ==
    IF S = {} THEN <<>>
    ELSE LET x == CHOOSE y \in S : TRUE IN <<x>> \o SetToSeq(S \ {x})

\* triton.cdiv / tl.cdiv
cdiv(x, y) == (x + y - 1) \div y

(***************************************************************************)
(* 8-bit integer arithmetic of torch.int8 / tl.int8: values are kept       *)
(* signed, in -128..127, and every operation wraps to 8 bits.              *)
(***************************************************************************)
to_int8(x) == LET u == x % 256 IN IF u >= 128 THEN u - 256 ELSE u

RECURSIVE BitAnd(_, _, _)
BitAnd(x, y, bits) ==
    IF bits = 0 THEN 0
    ELSE (IF x % 2 = 1 /\ y % 2 = 1 THEN 1 ELSE 0)
         + 2 * BitAnd(x \div 2, y \div 2, bits - 1)

RECURSIVE BitOr(_, _, _)
BitOr(x, y, bits) ==
    IF bits = 0 THEN 0
    ELSE (IF x % 2 = 1 \/ y % 2 = 1 THEN 1 ELSE 0)
         + 2 * BitOr(x \div 2, y \div 2, bits - 1)

and_i8(x, y) == to_int8(BitAnd(x % 256, y % 256, 8))

or_i8(x, y) == to_int8(BitOr(x % 256, y % 256, 8))

shl_i8(x, s) == to_int8(x * Pow2(s))

\* arithmetic right shift of a signed value
sar_i8(x, s) == x \div Pow2(s)

(***************************************************************************)
(* Conversion of an integer to bfloat16 (8 significant bits, round to      *)
(* nearest, ties to even), as an integer again.                            *)
(***************************************************************************)
RECURSIVE Log2Floor(_)
Log2Floor(x) == IF x < 2 THEN 0 ELSE 1 + Log2Floor(x \div 2)

to_bfloat16(x) ==
    LET mag == Abs(x)
        e == Log2Floor(mag)
        ulp == IF e <= 7 THEN 1 ELSE Pow2(e - 7)
        q == mag \div ulp
        r == mag % ulp
        up == (2 * r > ulp) \/ (2 * r = ulp /\ q % 2 = 1)
        rounded == (IF up THEN q + 1 ELSE q) * ulp
    IN IF x < 0 THEN -rounded ELSE rounded

(***************************************************************************)
(* Weight packer.  A tensor is a flat memory; rows and cols give its       *)
(* shape.                                                                  *)
(***************************************************************************)
\* t.to(torch.int8).reshape(rows // 2, 2, cols).permute(1, 0, 2)[j][i][n]
pack_lane(t, cols, j, i, n) == to_int8(t[(2 * i + j) * cols + n])

pack_2xint4_hi_first(t, rows, cols) ==
    [addr \in 0 .. ((rows \div 2) * cols - 1) |->
        LET i == addr \div cols
            n == addr % cols
        IN or_i8(and_i8(pack_lane(t, cols, 1, i, n), 15),
                 shl_i8(pack_lane(t, cols, 0, i, n), 4))]

pack_2xint4_row_major_pairs(t, rows, cols) ==
    [addr \in 0 .. ((rows \div 2) * cols - 1) |->
        LET i == addr \div cols
            n == addr % cols
        IN or_i8(and_i8(to_int8(t[2 * addr]), 15),
                 shl_i8(to_int8(t[2 * addr + 1]), 4))]

\* (t[0] & 0xF) | (t[1] << 4): a (rows // 2) x cols matrix of bytes
pack_2xint4(t, rows, cols) ==
    [addr \in 0 .. ((rows \div 2) * cols - 1) |->
        LET i == addr \div cols
            n == addr % cols
        IN or_i8(and_i8(pack_lane(t, cols, 0, i, n), 15),
                 shl_i8(pack_lane(t, cols, 1, i, n), 4))]

(***************************************************************************)
(* The unpacking written in matmul_kernel (the block the source keeps in   *)
(* a string literal, so that no launch executes it).                       *)
(***************************************************************************)
\* b_lo = (b << _4_i8) >> _4_i8
b_lo(x) == sar_i8(shl_i8(x, 4), 4)

\* b_hi = b >> _4_i8
b_hi(x) == sar_i8(x, 4)

\* tl.join(b_lo, b_hi).permute(0, 2, 1).reshape(2 * prows, cols)
unpack_2xint4(p, prows, cols) ==
    [addr \in 0 .. (2 * prows * cols - 1) |->
        LET r == addr \div cols
            n == addr % cols
            x == p[(r \div 2) * cols + n]
        IN to_bfloat16(IF r % 2 = 0 THEN b_lo(x) ELSE b_hi(x))]

(***************************************************************************)
(* Input matrices of the model.                                            *)
(***************************************************************************)
AVal(s, addr) == 1 + ((s + addr) % 3)

WVal(s, addr) == ((5 * addr + 3 * s) % 16) - 8

Int4 == -8 .. 7

Garbage == {-1, 2}

Empty == [x \in {} |-> 0]

(***************************************************************************)
(* Shapes and strides as matmul passes them.                               *)
(***************************************************************************)
\* b.shape[0]
b_rows == IF USE_INT8_WEIGHT THEN Kb \div 2 ELSE Kb

stride_am == K

stride_ak == 1

stride_bk == N

stride_bn == 1

stride_cm == N

stride_cn == 1

(***************************************************************************)
(* Tile scheduler: the grouped ordering of matmul_kernel.                  *)
(***************************************************************************)
num_pid_m == cdiv(M, BLOCK_SIZE_M)

num_pid_n == cdiv(N, BLOCK_SIZE_N)

\* the launch grid computed by matmul
grid == cdiv(M, BLOCK_SIZE_M) * cdiv(N, BLOCK_SIZE_N)

num_pid_in_group == GROUP_SIZE_M * num_pid_n

group_id(pid) == pid \div num_pid_in_group

first_pid_m(pid) == group_id(pid) * GROUP_SIZE_M

group_size_m_unclamped(pid) == GROUP_SIZE_M

group_size_m(pid) == Min(num_pid_m - first_pid_m(pid), GROUP_SIZE_M)

pid_m_by_column(pid) == first_pid_m(pid) + ((pid % num_pid_in_group) \div num_pid_n)

pid_m(pid) == first_pid_m(pid) + (pid % group_size_m(pid))

pid_n(pid) == (pid % num_pid_in_group) \div group_size_m(pid)

(***************************************************************************)
(* matmul_kernel: offsets, masks and loads of program instance pid.        *)
(***************************************************************************)
Lanes_m == 0 .. (BLOCK_SIZE_M - 1)

Lanes_n == 0 .. (BLOCK_SIZE_N - 1)

Lanes_k == 0 .. (BLOCK_SIZE_K - 1)

offs_am(pid, m) == (pid_m(pid) * BLOCK_SIZE_M + m) % M

offs_bn(pid, n) == (pid_n(pid) * BLOCK_SIZE_N + n) % N

\* row and column of A, and address, that lane (kk, m) of a_ptrs designates
a_col(pid, kk) == (a_ptrs[pid] \div stride_ak) + kk

a_addr(pid, kk, m) == a_ptrs[pid] + offs_am(pid, m) * stride_am + kk * stride_ak

\* row of B, and address, that lane (n, kk) of b_ptrs designates
b_row(pid, kk) == (b_ptrs[pid] \div stride_bk) + kk

b_addr(pid, n, kk) == b_ptrs[pid] + kk * stride_bk + offs_bn(pid, n) * stride_bn

\* mask=offs_ak[:, None] < K - k * BLOCK_SIZE_K
a_mask(pid, kk) == kk < K - k_it[pid] * BLOCK_SIZE_K

a_in_range(pid, kk, m) == offs_am(pid, m) \in 0 .. (M - 1) /\ a_col(pid, kk) \in 0 .. (K - 1)

b_in_range(pid, n, kk) == b_row(pid, kk) \in 0 .. (b_rows - 1) /\ offs_bn(pid, n) \in 0 .. (N - 1)

\* tl.load(a_ptrs, mask=..., other=0.0); g is what a read outside A finds
load_a(pid, kk, m, g) ==
    IF a_mask(pid, kk)
    THEN (IF a_in_range(pid, kk, m) THEN a[a_addr(pid, kk, m)] ELSE g)
    ELSE 0

\* tl.load(b_ptrs); g is what a read outside B finds
load_b(pid, n, kk, g) ==
    IF b_in_range(pid, n, kk) THEN b[b_addr(pid, n, kk)] ELSE g

\* b_f16 = b.to(tl.bfloat16) if USE_INT8_WEIGHT else b
b_f16(x) == IF USE_INT8_WEIGHT THEN to_bfloat16(x) ELSE x

\* tl.dot(b_f16, a)[n][m]
dot(pid, n, m, g) ==
    SumOver(Lanes_k, [kk \in Lanes_k |-> b_f16(load_b(pid, n, kk, g)) * load_a(pid, kk, m, g)])

reads_outside(pid) ==
    \/ \E kk \in Lanes_k, m \in Lanes_m : a_mask(pid, kk) /\ ~a_in_range(pid, kk, m)
    \/ \E kk \in Lanes_k, n \in Lanes_n : ~b_in_range(pid, n, kk)

(***************************************************************************)
(* matmul_kernel: the store of the tile.                                   *)
(***************************************************************************)
offs_cm(pid, m) == pid_m(pid) * BLOCK_SIZE_M + m

offs_cn(pid, n) == pid_n(pid) * BLOCK_SIZE_N + n

c_addr_transposed(pid, n, m) == stride_cm * offs_cn(pid, n) + stride_cn * offs_cm(pid, m)

\* c_ptrs = c_ptr + stride_cm * offs_cm[None, :] + stride_cn * offs_cn[:, None]
c_addr(pid, n, m) == stride_cm * offs_cm(pid, m) + stride_cn * offs_cn(pid, n)

c_mask_rows_only(pid, n, m) == offs_cm(pid, m) < M

\* c_mask = (offs_cm[None, :] < M) & (offs_cn[:, None] < N)
c_mask(pid, n, m) == offs_cm(pid, m) < M /\ offs_cn(pid, n) < N

\* the lanes (n, m) of the accumulator that tl.store writes
store_lanes(pid) == {l \in Lanes_n \X Lanes_m : c_mask(pid, l[1], l[2])}

\* the values one tl.store appends to the cell at addr
stored_at(pid, addr) ==
    LET hits == {l \in store_lanes(pid) : c_addr(pid, l[1], l[2]) = addr}
        seq == SetToSeq(hits)
    IN [i \in 1 .. Len(seq) |-> to_bfloat16(accumulator[pid][seq[i]])]

(***************************************************************************)
(* Actions of one call matmul(a, b, use_int16).                            *)
(***************************************************************************)
Pids == 0 .. (grid - 1)

\* matmul up to the dispatch: c = torch.empty((M, N)), kernel[grid](...)
Launch ==
    /\ host = "call"
    /\ host' = "running"
    /\ c' = [addr \in 0 .. (M * N - 1) |-> <<>>]
    /\ pc' = [pid \in Pids |-> "start"]
    /\ k_it' = [pid \in Pids |-> 0]
    /\ a_ptrs' = [pid \in Pids |-> 0]
    /\ b_ptrs' = [pid \in Pids |-> 0]
    /\ accumulator' = [pid \in Pids |-> [l \in Lanes_n \X Lanes_m |-> 0]]
    /\ UNCHANGED <<bad_load_a, bad_load_b, bad_store>>
    /\ UNCHANGED <<config_vars, sched_vars, pack_vars>>

\* tl.device_assert(K % BLOCK_SIZE_K == 0): kept only in a debug build
assert_enabled == TRITON_DEBUG

\* kernel entry: the assert, then the pointers and the zeroed accumulator
Entry(pid) ==
    /\ host = "running"
    /\ pc[pid] = "start"
    /\ IF assert_enabled /\ K % BLOCK_SIZE_K # 0
       THEN pc' = [pc EXCEPT ![pid] = "trapped"]
       ELSE pc' = [pc EXCEPT ![pid] = "loop"]
    /\ UNCHANGED <<c, host, k_it, a_ptrs, b_ptrs, accumulator,
                   bad_load_a, bad_load_b, bad_store>>
    /\ UNCHANGED <<config_vars, sched_vars, pack_vars>>

\* one iteration of `for k in range(0, tl.cdiv(K, BLOCK_SIZE_K))`
ReductionStep(pid) ==
    /\ host = "running"
    /\ pc[pid] = "loop"
    /\ \E g \in (IF reads_outside(pid) THEN Garbage ELSE {0}) :
          accumulator' = [accumulator EXCEPT ![pid] =
              [l \in Lanes_n \X Lanes_m |-> @[l] + dot(pid, l[1], l[2], g)]]
    /\ bad_load_a' = (bad_load_a \/
          \E kk \in Lanes_k, m \in Lanes_m : a_mask(pid, kk) /\ ~a_in_range(pid, kk, m))
    /\ bad_load_b' = (bad_load_b \/
          \E kk \in Lanes_k, n \in Lanes_n : ~b_in_range(pid, n, kk))
    /\ a_ptrs' = [a_ptrs EXCEPT ![pid] = @ + BLOCK_SIZE_K * stride_ak]
    /\ b_ptrs' = [b_ptrs EXCEPT ![pid] = @ + BLOCK_SIZE_K * stride_bk]
    /\ k_it' = [k_it EXCEPT ![pid] = @ + 1]
    /\ pc' = [pc EXCEPT ![pid] =
          IF k_it[pid] + 1 < cdiv(K, BLOCK_SIZE_K) THEN "loop" ELSE "store"]
    /\ UNCHANGED <<c, host, bad_store>>
    /\ UNCHANGED <<config_vars, sched_vars, pack_vars>>

\* c = accumulator.to(tl.bfloat16); tl.store(c_ptrs, c, mask=c_mask)
Store(pid) ==
    /\ host = "running"
    /\ pc[pid] = "store"
    /\ c' = [addr \in DOMAIN c |-> c[addr] \o stored_at(pid, addr)]
    /\ bad_store' = (bad_store \/
          \E l \in store_lanes(pid) :
              offs_cm(pid, l[2]) >= M \/ offs_cn(pid, l[1]) >= N)
    /\ pc' = [pc EXCEPT ![pid] = "done"]
    /\ UNCHANGED <<host, k_it, a_ptrs, b_ptrs, accumulator, bad_load_a, bad_load_b>>
    /\ UNCHANGED <<config_vars, sched_vars, pack_vars>>

\* the dispatch ends normally and matmul returns c
Return ==
    /\ host = "running"
    /\ \A pid \in Pids : pc[pid] = "done"
    /\ host' = "returned"
    /\ UNCHANGED <<c, pc, k_it, a_ptrs, b_ptrs, accumulator,
                   bad_load_a, bad_load_b, bad_store>>
    /\ UNCHANGED <<config_vars, sched_vars, pack_vars>>

\* a trapped instance fails the dispatch; matmul raises
Fail ==
    /\ host = "running"
    /\ \A pid \in Pids : pc[pid] \in {"done", "trapped"}
    /\ \E pid \in Pids : pc[pid] = "trapped"
    /\ host' = "failed"
    /\ UNCHANGED <<c, pc, k_it, a_ptrs, b_ptrs, accumulator,
                   bad_load_a, bad_load_b, bad_store>>
    /\ UNCHANGED <<config_vars, sched_vars, pack_vars>>

KernelIdle ==
    /\ host = "unused"
    /\ c = Empty
    /\ pc = Empty
    /\ k_it = Empty
    /\ a_ptrs = Empty
    /\ b_ptrs = Empty
    /\ accumulator = Empty
    /\ bad_load_a = FALSE
    /\ bad_load_b = FALSE
    /\ bad_store = FALSE

SchedIdle ==
    /\ scan_pid = 0
    /\ tile_log = Empty

PackIdle ==
    /\ unpacked = Empty
    /\ pack_pc = "unused"

Init ==
    /\ M \in 1 .. MaxM
    /\ N \in 1 .. MaxN
    /\ K \in 1 .. MaxK
    /\ Kb \in 1 .. MaxK
    /\ BLOCK_SIZE_M \in 1 .. MaxBlock
    /\ BLOCK_SIZE_N \in 1 .. MaxBlock
    /\ BLOCK_SIZE_K \in 1 .. MaxBlock
    /\ GROUP_SIZE_M \in 1 .. MaxGroup
    /\ grid <= MaxGrid
    /\ USE_INT8_WEIGHT \in BOOLEAN
    /\ USE_INT8_WEIGHT => Kb % 2 = 0
    \* the two builds differ only when the assert fails
    /\ TRITON_DEBUG \in (IF K % BLOCK_SIZE_K = 0 THEN {FALSE} ELSE BOOLEAN)
    /\ \E s \in 0 .. MaxSeed :
          /\ a = [addr \in 0 .. (M * K - 1) |-> AVal(s, addr)]
          /\ w = [addr \in 0 .. (Kb * N - 1) |-> WVal(s, addr)]
    /\ b = IF USE_INT8_WEIGHT THEN pack_2xint4(w, Kb, N) ELSE w
    /\ host = "call"
    /\ c = Empty
    /\ pc = Empty
    /\ k_it = Empty
    /\ a_ptrs = Empty
    /\ b_ptrs = Empty
    /\ accumulator = Empty
    /\ bad_load_a = FALSE
    /\ bad_load_b = FALSE
    /\ bad_store = FALSE
    /\ SchedIdle
    /\ PackIdle

Next ==
    \/ Launch
    \/ \E pid \in DOMAIN pc : Entry(pid)
    \/ \E pid \in DOMAIN pc : ReductionStep(pid)
    \/ \E pid \in DOMAIN pc : Store(pid)
    \/ Return
    \/ Fail

Spec == Init /\ [][Next]_vars

(***************************************************************************)
(* SpecSched: the tile scheduler applied to pid = 0 .. grid - 1 in turn.   *)
(* tile_log[t] is the set of pids mapped to tile t; Stray collects the     *)
(* pids mapped outside the num_pid_m x num_pid_n tiles.                    *)
(***************************************************************************)
Stray == <<-1, -1>>

Tiles == (0 .. (num_pid_m - 1)) \X (0 .. (num_pid_n - 1))

tile_of(pid) ==
    IF <<pid_m(pid), pid_n(pid)>> \in Tiles THEN <<pid_m(pid), pid_n(pid)>> ELSE Stray

InitSched ==
    /\ M \in 1 .. MaxSchedM
    /\ N \in 1 .. MaxSchedN
    /\ BLOCK_SIZE_M \in 1 .. MaxBlock
    /\ BLOCK_SIZE_N \in 1 .. MaxBlock
    /\ GROUP_SIZE_M \in 1 .. MaxSchedGroup
    /\ K = 1
    /\ Kb = 1
    /\ BLOCK_SIZE_K = 1
    /\ USE_INT8_WEIGHT = FALSE
    /\ TRITON_DEBUG = FALSE
    /\ a = Empty
    /\ w = Empty
    /\ b = Empty
    /\ scan_pid = 0
    /\ tile_log = [t \in Tiles \cup {Stray} |-> {}]
    /\ KernelIdle
    /\ PackIdle

\* the mapping of matmul_kernel evaluated for pid = scan_pid
SchedStep ==
    /\ scan_pid < grid
    /\ tile_log' = [tile_log EXCEPT ![tile_of(scan_pid)] = @ \cup {scan_pid}]
    /\ scan_pid' = scan_pid + 1
    /\ UNCHANGED <<config_vars, kernel_vars, pack_vars>>

NextSched == SchedStep

SpecSched == InitSched /\ [][NextSched]_vars

(***************************************************************************)
(* SpecPack: pack_2xint4 applied to the Kb x N matrix w, then the          *)
(* unpacking applied to the packed matrix b.                               *)
(***************************************************************************)
\* the matrix [[1, -2], [3, -4], [5, -6], [7, -8]]
ScenarioW == [addr \in 0 .. 7 |-> IF addr % 2 = 0 THEN addr + 1 ELSE -(addr + 1)]

PackInputs ==
    [rows : {2}, cols : {1}, t : [0 .. 1 -> Int4]]
    \cup {[rows |-> 2 * h, cols |-> n, t |-> [addr \in 0 .. (2 * h * n - 1) |-> WVal(s, addr)]] :
             h \in 1 .. MaxPackHalfK, n \in 1 .. MaxPackN, s \in 0 .. (Cardinality(Int4) - 1)}
    \cup {[rows |-> 4, cols |-> 2, t |-> ScenarioW]}

InitPack ==
    /\ \E in \in PackInputs :
          /\ Kb = in.rows
          /\ N = in.cols
          /\ w = in.t
    /\ M = 1
    /\ K = Kb
    /\ BLOCK_SIZE_M = 1
    /\ BLOCK_SIZE_N = 1
    /\ BLOCK_SIZE_K = 1
    /\ GROUP_SIZE_M = 1
    /\ USE_INT8_WEIGHT = TRUE
    /\ TRITON_DEBUG = FALSE
    /\ a = Empty
    /\ b = Empty
    /\ unpacked = Empty
    /\ pack_pc = "input"
    /\ KernelIdle
    /\ SchedIdle

Pack ==
    /\ pack_pc = "input"
    /\ b' = pack_2xint4(w, Kb, N)
    /\ pack_pc' = "packed"
    /\ UNCHANGED <<M, N, K, Kb, BLOCK_SIZE_M, BLOCK_SIZE_N, BLOCK_SIZE_K,
                   GROUP_SIZE_M, USE_INT8_WEIGHT, TRITON_DEBUG, a, w, unpacked>>
    /\ UNCHANGED <<kernel_vars, sched_vars>>

Unpack ==
    /\ pack_pc = "packed"
    /\ unpacked' = unpack_2xint4(b, b_rows, N)
    /\ pack_pc' = "unpacked"
    /\ UNCHANGED <<config_vars, kernel_vars, sched_vars>>

NextPack == Pack \/ Unpack

SpecPack == InitPack /\ [][NextPack]_vars

(***************************************************************************)
(* Properties.                                                             *)
(***************************************************************************)
\* every program instance of the launch has run to its end
Completed ==
    /\ host \in {"running", "returned"}
    /\ \A pid \in Pids : pc[pid] = "done"

\* the cell (i, j) of the row-major M x N output
Cell(i, j) == c[i * N + j]

\* reference dense product (a x w)[i][j]
Ref(i, j) == SumOver(0 .. (K - 1), [k \in 0 .. (K - 1) |-> a[i * K + k] * w[k * N + j]])

OutputIsRef ==
    \A i \in 0 .. (M - 1), j \in 0 .. (N - 1) :
        /\ Cell(i, j) # <<>>
        /\ Cell(i, j)[Len(Cell(i, j))] = Ref(i, j)

\* C1: no store targets a cell with i >= M or j >= N, no cell of C is ever
\* stored twice, and once every instance of the grid has run to completion
\* (in whatever interleaving) every cell of C has been stored exactly once.
C1_TilePartition ==
    /\ ~bad_store
    /\ \A addr \in DOMAIN c : Len(c[addr]) <= 1
    /\ Completed =>
          \A i \in 0 .. (M - 1), j \in 0 .. (N - 1) : Len(Cell(i, j)) = 1

\* C1 witness: a completed launch of several tiles where neither M nor N
\* is a multiple of its block size.
C1_Witness ==
    /\ Completed
    /\ M = 3 /\ BLOCK_SIZE_M = 2
    /\ N % BLOCK_SIZE_N # 0
    /\ grid > 1

\* C2: the grouped mapping sends no pid outside the tile grid, no two pids
\* to the same tile, and, once all pids 0 .. grid-1 are mapped, some pid to
\* every tile.
C2_MappingBijective ==
    /\ tile_log[Stray] = {}
    /\ \A t \in Tiles : Cardinality(tile_log[t]) <= 1
    /\ scan_pid = grid => \A t \in Tiles : Cardinality(tile_log[t]) = 1

\* C2 witness: a fully mapped grid whose last group is short and starts at
\* a pid that is no multiple of its height, and one with GROUP_SIZE_M
\* larger than the number of row tiles.
C2_Witness ==
    /\ scan_pid = grid
    /\ \/ num_pid_m = 5 /\ num_pid_n = 3 /\ GROUP_SIZE_M = 3
       \/ num_pid_m = 3 /\ num_pid_n = 2 /\ GROUP_SIZE_M = 4

\* the row band a pid belongs to
band(pid) == pid \div (GROUP_SIZE_M * num_pid_n)

\* C3: in dense mode with K a multiple of BLOCK_SIZE_K and b of shape
\* (K, N), after the launch completes every C[i][j] holds
\* sum_k A[i][k] * B[k][j].
C3_MatchesReference ==
    (Completed /\ ~USE_INT8_WEIGHT /\ K = Kb /\ K % BLOCK_SIZE_K = 0) => OutputIsRef

\* C3 witness: matmul has returned from a dense launch with two reduction
\* steps and boundary tiles in both dimensions.
C3_Witness ==
    /\ host = "returned"
    /\ ~USE_INT8_WEIGHT /\ K = Kb
    /\ K = 2 /\ BLOCK_SIZE_K = 1
    /\ M = 3 /\ BLOCK_SIZE_M = 2
    /\ N = 1 /\ BLOCK_SIZE_N = 2

\* C4 as stated: packing [[1,-2],[3,-4],[5,-6],[7,-8]] gives a 2 x 2 byte
\* matrix whose [0][0] entry is the byte 0xE1 (low nibble 1, high nibble -2).
C4_Original ==
    (pack_pc # "input" /\ Kb = 4 /\ N = 2 /\ w = ScenarioW) =>
        (DOMAIN b = 0 .. 3 /\ b[0] = to_int8(225))

\* C4 amended: packing [[1,-2],[3,-4],[5,-6],[7,-8]] gives a 2 x 2 byte
\* matrix whose [0][0] entry is the byte 0x31: low nibble 1 (row 0, column
\* 0) and high nibble 3 (row 1, column 0).
C4_PackScenario ==
    (pack_pc # "input" /\ Kb = 4 /\ N = 2 /\ w = ScenarioW) =>
        (DOMAIN b = 0 .. 3 /\ b[0] = 49 /\ b[0] % 16 = 1 /\ b[0] \div 16 = 3)

\* C4 witness: the scenario matrix has been packed.
C4_Witness == pack_pc = "packed" /\ Kb = 4 /\ N = 2 /\ w = ScenarioW

\* C5: unpacking pack_2xint4(W) (low nibble by shift left 4 then arithmetic
\* shift right 4, high nibble by arithmetic shift right 4, packed row i to
\* rows 2i and 2i+1) gives back W, for every W with values in [-8, 7].
C5_RoundTrip == pack_pc = "unpacked" => unpacked = w

\* C5 witness: a round trip of a 4 x 2 matrix with a negative value in a
\* low lane and a negative value in a high lane.
C5_Witness ==
    /\ pack_pc = "unpacked"
    /\ Kb = 4 /\ N = 2
    /\ w[0] < 0 /\ w[N] < 0

\* C6 as stated: in packed mode on pack_2xint4(W), with K a multiple of
\* BLOCK_SIZE_K, the completed launch leaves in C what dense mode leaves on
\* W itself, the product a x W.
C6_PackedEqualsDense ==
    (Completed /\ USE_INT8_WEIGHT /\ K = Kb /\ K % BLOCK_SIZE_K = 0) => OutputIsRef

\* C7 as stated: when a's column count differs from b's logical row count,
\* matmul fails before the dispatch: no instance runs, no cell of C is
\* written, no output is returned.
C7_ShapeMismatchFatal ==
    K # Kb =>
        /\ host \notin {"running", "returned"}
        /\ \A addr \in DOMAIN c : c[addr] = <<>>

\* C8 as stated: when K is no multiple of BLOCK_SIZE_K no instance ever
\* stores a cell of C and matmul returns no output.
C8_KDivisibilityAtomic ==
    K % BLOCK_SIZE_K # 0 =>
        /\ \A addr \in DOMAIN c : c[addr] = <<>>
        /\ host # "returned"

\* C9: every mapped pid of band g has its tile row in
\* [g*GROUP_SIZE_M, min((g+1)*GROUP_SIZE_M, num_pid_m)); within a band a
\* later pid never has a smaller tile column, and two pids of one band with
\* the same tile column have different tile rows.
C9_GroupedOrdering ==
    /\ \A pid \in 0 .. (scan_pid - 1) :
          /\ pid_m(pid) >= band(pid) * GROUP_SIZE_M
          /\ pid_m(pid) < Min((band(pid) + 1) * GROUP_SIZE_M, num_pid_m)
    /\ scan_pid = grid =>
          \A p \in Pids, q \in Pids :
              (p < q /\ band(p) = band(q)) =>
                  /\ pid_n(p) <= pid_n(q)
                  /\ pid_n(p) = pid_n(q) => pid_m(p) # pid_m(q)

\* C9 witness: the grid of 10 x 4 tiles with GROUP_SIZE_M = 3, fully
\* mapped, where ids 0..11 lie in tile rows 0..2.
C9_Witness ==
    /\ scan_pid = grid
    /\ num_pid_m = 10 /\ num_pid_n = 4 /\ GROUP_SIZE_M = 3
    /\ \A pid \in 0 .. 11 : pid_m(pid) \in 0 .. 2

\* C10 as stated: with K a multiple of BLOCK_SIZE_K (and b holding the K
\* logical rows), every element loaded from A lies in [0,M) x [0,K) and
\* every element loaded from B lies inside B's physical storage, in dense
\* and in packed mode.
C10_NoOutOfRangeReads ==
    (K % BLOCK_SIZE_K = 0 /\ K = Kb) => (~bad_load_a /\ ~bad_load_b)

====
